---- MODULE Spec2Model ----
(***************************************************************************)
(* RealInterval (src/src/lib.rs): a closed interval [min, max] over f32,   *)
(* with scalar, arithmetic, power, power-of-two and set operations.        *)
(*                                                                         *)
(* An f32 is its binary32 bit pattern, kept as the three fields of the     *)
(* layout: a record [sign, exp, man] with sign in 0..1 (bit 31), exp in    *)
(* 0..255 (bits 23..30) and man in 0..2^23-1 (bits 0..22).  Comparisons,   *)
(* abs, negation, rounding and the bit-level scaling are computed on the   *)
(* pattern for every f32.  Sums, products and powers are computed exactly  *)
(* as value = significand * 2^exponent; where the exact result is not an   *)
(* f32 the model does not follow the operation (the result is Beyond and   *)
(* the action that would produce it is not taken), except for the          *)
(* reciprocal of powi, which is rounded to nearest-even as the division    *)
(* does.                                                                   *)
(***************************************************************************)
EXTENDS Integers

VARIABLES self, rhs, exponent, op, out, profile

vars == <<self, rhs, exponent, op, out, profile>>

(***************************************************************************)
(* Bounds of the model.                                                    *)
(***************************************************************************)
\* constructor arguments are j / 2^InFrac for |j| <= MaxIn
MaxIn == 6
InFrac == 1
\* integer exponents handed to powi / powf are -MaxPow..MaxPow
MaxPow == 3
\* the chain of operations follows values m * 2^e with odd m <= MaxSig,
\* |e| <= ExpSpan
MaxSig == 3
ExpSpan == 2
\* the operands of the chain's operations are j / 2^InFrac for |j| <= MaxArg
MaxArg == 2
\* mul_pow2 is handed -MaxShift..MaxShift in the chain of operations
MaxShift == 2

(***************************************************************************)
(* binary32 layout                                                         *)
(***************************************************************************)
Pow2(k) == 2^k

\* number of mantissa bits: the shift in (bits >> 23) and (exp << 23)
ManBits == 23
\* number of exponent bits: the width of the mask 0xff
ExpBits == 8
ExpMask == Pow2(ExpBits) - 1
\* exponent bias of binary32
Bias == Pow2(ExpBits - 1) - 1

Two23 == Pow2(ManBits)

F32(s, e, m) == [sign |-> s, exp |-> e, man |-> m]

\* a result the model does not follow (not an f32: exp is outside 0..255)
Beyond == F32(0, ExpMask + 1, 0)
Followed(x) == x.exp <= ExpMask

IsNaN(x) == x.exp = ExpMask /\ x.man # 0
IsInf(x) == x.exp = ExpMask /\ x.man = 0
IsZero(x) == x.exp = 0 /\ x.man = 0
IsFinite(x) == x.exp < ExpMask

Zero(s) == F32(s, 0, 0)
Inf(s) == F32(s, ExpMask, 0)
NaN == F32(0, ExpMask, Pow2(ManBits - 1))

\* sign-magnitude order key: the order of all non-NaN f32, +0 = -0
Key(x) ==
  LET mag == x.exp * Two23 + x.man
  IN  IF ~Followed(x) THEN 0 ELSE IF x.sign = 0 THEN mag ELSE 0 - mag

\* f32 comparison operators (false when either side is NaN)
f32_le(x, y) == ~IsNaN(x) /\ ~IsNaN(y) /\ Key(x) <= Key(y)
f32_lt(x, y) == ~IsNaN(x) /\ ~IsNaN(y) /\ Key(x) < Key(y)
f32_ge(x, y) == f32_le(y, x)
f32_gt(x, y) == f32_lt(y, x)
f32_eq(x, y) == ~IsNaN(x) /\ ~IsNaN(y) /\ Key(x) = Key(y)

\* f32::min / f32::max: a NaN operand is ignored; of two equal operands
\* (+0 and -0) the receiver is returned
f32_min(x, y) ==
  IF ~Followed(x) \/ ~Followed(y) THEN Beyond
  ELSE IF IsNaN(x) THEN y ELSE IF IsNaN(y) THEN x
  ELSE IF Key(y) < Key(x) THEN y ELSE x
f32_max(x, y) ==
  IF ~Followed(x) \/ ~Followed(y) THEN Beyond
  ELSE IF IsNaN(x) THEN y ELSE IF IsNaN(y) THEN x
  ELSE IF Key(y) > Key(x) THEN y ELSE x

f32_abs(x) == F32(0, x.exp, x.man)
f32_neg(x) == IF ~Followed(x) THEN Beyond ELSE F32(1 - x.sign, x.exp, x.man)

(***************************************************************************)
(* exact values: x = (-1)^sign * Sig(x) * 2^Ex(x)                          *)
(***************************************************************************)
Sig(x) == IF x.exp = 0 THEN x.man ELSE Two23 + x.man
Ex(x) == IF x.exp = 0 THEN 1 - Bias - ManBits ELSE x.exp - Bias - ManBits

\* m * 2^e with m made odd (m = 0 stays)
RECURSIVE Norm(_, _)
Norm(m, e) ==
  IF m = 0 THEN [m |-> 0, e |-> 0]
  ELSE IF m % 4096 = 0 THEN Norm(m \div 4096, e + 12)
  ELSE IF m % 16 = 0 THEN Norm(m \div 16, e + 4)
  ELSE IF m % 2 = 0 THEN Norm(m \div 2, e + 1)
  ELSE [m |-> m, e |-> e]

Dy(x) == Norm(Sig(x), Ex(x))

\* position of the leading bit of m > 0
RECURSIVE Log2(_)
Log2(m) ==
  IF m <= 1 THEN 0
  ELSE IF m >= 256 THEN 8 + Log2(m \div 256)
  ELSE 1 + Log2(m \div 2)

\* the f32 whose value is exactly (-1)^s * m * 2^e, m >= 0; Beyond when that
\* value is not a normal f32 (it would be rounded, overflow or go subnormal)
FromDyadic(s, m, e) ==
  IF m = 0 THEN Zero(s)
  ELSE LET d == Norm(m, e)
           t == Log2(d.m)
           b == d.e + t + Bias
       IN  IF t <= ManBits /\ b >= 1 /\ b < ExpMask
           THEN F32(s, b, (d.m - Pow2(t)) * Pow2(ManBits - t))
           ELSE Beyond

\* the exact arithmetic is followed for significands up to SigLim and
\* alignment shifts up to ShiftLim (the sums stay below 2^31)
SigLim == Pow2(12)
ShiftLim == 16
Exact(x) == IsFinite(x) /\ (IsZero(x) \/ Dy(x).m <= SigLim)

Signed(x, m) == IF x.sign = 0 THEN m ELSE 0 - m
Magnitude(i) == IF i < 0 THEN 0 - i ELSE i

\* x + y and x - y (sgn = 1 or -1 applied to y)
f32_addsub(x, y, sgn) ==
  LET ys == IF sgn = 1 THEN y.sign ELSE 1 - y.sign
  IN
  IF ~Followed(x) \/ ~Followed(y) THEN Beyond
  ELSE IF IsNaN(x) \/ IsNaN(y) THEN NaN
  ELSE IF IsInf(x) /\ IsInf(y) THEN (IF x.sign = ys THEN x ELSE NaN)
  ELSE IF IsInf(x) THEN x
  ELSE IF IsInf(y) THEN Inf(ys)
  ELSE IF IsZero(x) /\ IsZero(y)
       THEN Zero(IF x.sign = 1 /\ ys = 1 THEN 1 ELSE 0)
  ELSE IF IsZero(y) THEN x
  ELSE IF IsZero(x) THEN F32(ys, y.exp, y.man)
  ELSE IF ~Exact(x) \/ ~Exact(y) THEN Beyond
  ELSE LET dx == Dy(x)
           dy == Dy(y)
           e0 == IF dx.e < dy.e THEN dx.e ELSE dy.e
       IN  IF dx.e - e0 > ShiftLim \/ dy.e - e0 > ShiftLim THEN Beyond
           ELSE LET s == Signed(x, dx.m) * Pow2(dx.e - e0)
                         + (IF ys = 0 THEN dy.m ELSE 0 - dy.m) * Pow2(dy.e - e0)
                IN  IF s = 0 THEN Zero(0)
                    ELSE FromDyadic(IF s < 0 THEN 1 ELSE 0, Magnitude(s), e0)

f32_add(x, y) == f32_addsub(x, y, 1)
f32_sub(x, y) == f32_addsub(x, y, -1)

f32_mul(x, y) ==
  LET s == IF x.sign = y.sign THEN 0 ELSE 1
  IN
  IF ~Followed(x) \/ ~Followed(y) THEN Beyond
  ELSE IF IsNaN(x) \/ IsNaN(y) THEN NaN
  ELSE IF IsInf(x) \/ IsInf(y)
       THEN (IF IsZero(x) \/ IsZero(y) THEN NaN ELSE Inf(s))
  ELSE IF IsZero(x) \/ IsZero(y) THEN Zero(s)
  ELSE IF ~Exact(x) \/ ~Exact(y) THEN Beyond
  ELSE FromDyadic(s, Dy(x).m * Dy(y).m, Dy(x).e + Dy(y).e)

One == F32(0, Bias, 0)

\* f32::round: to the nearest integer, halves away from zero
f32_round(x) ==
  IF ~Followed(x) THEN Beyond
  ELSE IF x.exp >= Bias + ManBits THEN x
  ELSE IF x.exp < Bias - 1 THEN Zero(x.sign)
  ELSE IF x.exp = Bias - 1 THEN F32(x.sign, Bias, 0)
  ELSE LET shift == Bias + ManBits - x.exp
           q == Sig(x) \div Pow2(shift)
           r == Sig(x) % Pow2(shift)
       IN  FromDyadic(x.sign, IF r >= Pow2(shift - 1) THEN q + 1 ELSE q, 0)

\* x * x * ... * x, k factors
RECURSIVE PowN(_, _)
PowN(x, k) == IF k <= 0 THEN One ELSE f32_mul(PowN(x, k - 1), x)

\* 1 / r, rounded to nearest (r's significand is odd, so there are no ties);
\* followed for significands below 2^RecipBits (the dividend stays below 2^31)
RecipBits == 6
f32_recip(r) ==
  IF ~Followed(r) THEN Beyond
  ELSE IF IsNaN(r) THEN NaN
  ELSE IF IsZero(r) THEN Inf(r.sign)
  ELSE IF IsInf(r) THEN Zero(r.sign)
  ELSE LET d == Dy(r)
           t == Log2(d.m)
       IN  IF d.m = 1 THEN FromDyadic(r.sign, 1, 0 - d.e)
           ELSE IF d.m >= Pow2(RecipBits) THEN Beyond
           ELSE LET num == Pow2(ManBits + 1 + t)
                    q == num \div d.m
                    rem == num % d.m
                IN  FromDyadic(r.sign, IF 2 * rem > d.m THEN q + 1 ELSE q,
                               0 - d.e - (ManBits + 1 + t))

\* f32::powi: the product of |n| factors, inverted for n < 0
f32_powi(x, n) == IF n >= 0 THEN PowN(x, n) ELSE f32_recip(PowN(x, 0 - n))

\* the integer an f32 denotes, for the integers -MaxPow..MaxPow; MaxPow + 1
\* for every other value
AsSmallInt(y) ==
  IF IsZero(y) THEN 0
  ELSE IF ~IsFinite(y) \/ ~Exact(y) THEN MaxPow + 1
  ELSE LET d == Dy(y)
       IN  IF d.e < 0 \/ d.e > MaxPow \/ d.m * Pow2(d.e) > MaxPow THEN MaxPow + 1
           ELSE Signed(y, d.m * Pow2(d.e))

\* f32::powf for a base >= 0: followed for integral exponents in
\* -MaxPow..MaxPow, where the power is the exact product or its reciprocal
f32_powf(x, y) ==
  IF ~Followed(x) \/ ~Followed(y) THEN Beyond
  ELSE IF AsSmallInt(y) > MaxPow THEN Beyond
  ELSE f32_powi(x, AsSmallInt(y))

\* the remainder of i32 division, with the sign of the dividend
i32_rem(a, b) == IF a >= 0 THEN a % b ELSE 0 - ((0 - a) % b)

(***************************************************************************)
(* RealInterval                                                            *)
(***************************************************************************)
RealInterval(lo, hi) == [min |-> lo, max |-> hi]

\* results of the operations: a value, no value (Option::None), or a panic
Some(v) == [tag |-> "Some", val |-> v]
None == [tag |-> "None", val |-> RealInterval(Zero(0), Zero(0))]
Panic == [tag |-> "Panic", val |-> RealInterval(Zero(0), Zero(0))]

\* min_max: assert!(min <= max)
min_max(lo, hi) == IF f32_le(lo, hi) THEN Some(RealInterval(lo, hi)) ELSE Panic

point(value) == RealInterval(value, value)

\* point_extents: assert!(half_extent >= 0.0)
point_extents(value, half_extent) ==
  IF f32_ge(half_extent, Zero(0))
  THEN Some(RealInterval(f32_sub(value, half_extent), f32_add(value, half_extent)))
  ELSE Panic

contains(iv, value) == f32_le(iv.min, value) /\ f32_le(value, iv.max)

abs(iv) ==
  IF f32_lt(iv.min, Zero(0)) /\ f32_le(Zero(0), iv.max)
  THEN RealInterval(Zero(0), f32_max(iv.max, f32_abs(iv.min)))
  ELSE LET a == f32_abs(iv.min)
           b == f32_abs(iv.max)
       IN  RealInterval(f32_min(a, b), f32_max(a, b))

len(iv) == f32_sub(iv.max, iv.min)

min(iv, r) == RealInterval(f32_min(iv.min, r.min), f32_min(iv.max, r.max))

max(iv, r) == RealInterval(f32_max(iv.min, r.min), f32_max(iv.max, r.max))

minf(iv, value) == RealInterval(f32_min(iv.min, value), f32_min(iv.max, value))

maxf(iv, value) == RealInterval(f32_max(iv.min, value), f32_max(iv.max, value))

\* powf: assert!(self.min >= 0.0)
powf(iv, value) ==
  IF ~f32_ge(iv.min, Zero(0)) THEN Panic
  ELSE IF f32_gt(value, Zero(0))
       THEN Some(RealInterval(f32_powf(iv.min, value), f32_powf(iv.max, value)))
       ELSE Some(RealInterval(f32_powf(iv.max, value), f32_powf(iv.min, value)))

powi(iv, value) ==
  IF i32_rem(value, 2) = 0
  THEN IF f32_lt(iv.min, Zero(0)) /\ f32_le(Zero(0), iv.max)
       THEN RealInterval(Zero(0),
                         f32_max(f32_powi(iv.min, value), f32_powi(iv.max, value)))
       ELSE IF f32_le(Zero(0), iv.min)
       THEN RealInterval(f32_powi(iv.min, value), f32_powi(iv.max, value))
       ELSE RealInterval(f32_powi(iv.max, value), f32_powi(iv.min, value))
  ELSE RealInterval(f32_powi(iv.min, value), f32_powi(iv.max, value))

round(iv) == RealInterval(f32_round(iv.min), f32_round(iv.max))

(***************************************************************************)
(* power-of-two scaling on the bit pattern.  A u32 is [hi, lo]: hi its top *)
(* 1 + ExpBits bits (sign and exponent field), lo its low ManBits bits.    *)
(***************************************************************************)
HiMod == Pow2(ExpBits + 1)

to_bits(a) == [hi |-> a.sign * Pow2(ExpBits) + a.exp, lo |-> a.man]
from_bits(b) == F32(b.hi \div Pow2(ExpBits), b.hi % Pow2(ExpBits), b.lo)

\* (exp << 23) as u32: the low ManBits bits are 0, the top bits are exp mod 2^9
shl23_as_u32(exp) == [hi |-> exp % HiMod, lo |-> 0]

\* a + b on u32: the exact sum's top part, before any wrap
u32_sum_hi(a, b) == a.hi + b.hi + ((a.lo + b.lo) \div Two23)
u32_overflows(a, b) == u32_sum_hi(a, b) >= HiMod
u32_wrapping_add(a, b) ==
  [hi |-> u32_sum_hi(a, b) % HiMod, lo |-> (a.lo + b.lo) % Two23]

verify_ldexp(a, exp) ==
  LET bits == to_bits(a)
      e == bits.hi % Pow2(ExpBits)
  IN  IF exp > 0 THEN exp <= ExpMask /\ e + exp <= ExpMask
      ELSE e + exp >= 0

\* ldexp: a.to_bits() + ((exp << 23) as u32); the addition panics on overflow
\* where overflow checks are compiled in (profile "dev") and wraps otherwise
ldexp_overflows(a, exp) == u32_overflows(to_bits(a), shl23_as_u32(exp))
ldexp(a, exp) == from_bits(u32_wrapping_add(to_bits(a), shl23_as_u32(exp)))

\* mul_pow2_unchecked: the debug_assert! is compiled in under profile "dev"
mul_pow2_unchecked(iv, value, prof) ==
  IF prof = "dev" /\ ~(verify_ldexp(iv.min, value) /\ verify_ldexp(iv.max, value))
  THEN Panic
  ELSE IF prof = "dev" /\ (ldexp_overflows(iv.min, value) \/ ldexp_overflows(iv.max, value))
  THEN Panic
  ELSE Some(RealInterval(ldexp(iv.min, value), ldexp(iv.max, value)))

mul_pow2(iv, value, prof) ==
  IF verify_ldexp(iv.min, value) /\ verify_ldexp(iv.max, value)
  THEN mul_pow2_unchecked(iv, value, prof)
  ELSE None

(***************************************************************************)
(* operators                                                               *)
(***************************************************************************)
\* a faulty variant of bitand: touching intervals rejected (< for <=)
bitand_strict(iv, r) ==
  LET lo == f32_max(iv.min, r.min)
      hi == f32_min(iv.max, r.max)
  IN  IF f32_lt(lo, hi) THEN Some(RealInterval(lo, hi)) ELSE None

bitand(iv, r) ==
  LET lo == f32_max(iv.min, r.min)
      hi == f32_min(iv.max, r.max)
  IN  IF f32_le(lo, hi) THEN Some(RealInterval(lo, hi)) ELSE None

\* a faulty variant of bitor: the upper bound taken against rhs.min
bitor_typo(iv, r) == RealInterval(f32_min(iv.min, r.min), f32_max(iv.max, r.min))

bitor(iv, r) == RealInterval(f32_min(iv.min, r.min), f32_max(iv.max, r.max))

add_f32(iv, r) == RealInterval(f32_add(iv.min, r), f32_add(iv.max, r))

sub_f32(iv, r) == RealInterval(f32_sub(iv.min, r), f32_sub(iv.max, r))

mul_f32(iv, r) ==
  IF f32_ge(r, Zero(0))
  THEN RealInterval(f32_mul(r, iv.min), f32_mul(r, iv.max))
  ELSE RealInterval(f32_mul(r, iv.max), f32_mul(r, iv.min))

f32_mul_interval(s, r) ==
  IF f32_ge(s, Zero(0))
  THEN RealInterval(f32_mul(s, r.min), f32_mul(s, r.max))
  ELSE RealInterval(f32_mul(s, r.max), f32_mul(s, r.min))

add(iv, r) == RealInterval(f32_add(iv.min, r.min), f32_add(iv.max, r.max))

\* a faulty variant of sub: bound-wise subtraction
sub_boundwise(iv, r) == RealInterval(f32_sub(iv.min, r.min), f32_sub(iv.max, r.max))

sub(iv, r) == RealInterval(f32_sub(iv.min, r.max), f32_sub(iv.max, r.min))

\* a faulty variant of mul: bound-wise product
mul_boundwise(iv, r) == RealInterval(f32_mul(iv.min, r.min), f32_mul(iv.max, r.max))

mul(iv, r) == bitor(f32_mul_interval(iv.min, r), f32_mul_interval(iv.max, r))

\* a faulty variant of neg: the bounds negated in place
neg_noswap(iv) == RealInterval(f32_neg(iv.min), f32_neg(iv.max))

neg(iv) == RealInterval(f32_neg(iv.max), f32_neg(iv.min))

\* derived PartialEq: both fields equal as f32
eq(a, b) == f32_eq(a.min, b.min) /\ f32_eq(a.max, b.max)

(***************************************************************************)
(* Inputs                                                                  *)
(***************************************************************************)
\* the integer k as an f32
Num(k) == FromDyadic(IF k < 0 THEN 1 ELSE 0, Magnitude(k), 0)

\* j / 2^InFrac as an f32
Val(j) == FromDyadic(IF j < 0 THEN 1 ELSE 0, Magnitude(j), 0 - InFrac)

\* the f32 arguments: the grid of finite values, and -0.0
InputVals == {Val(j) : j \in (0 - MaxIn)..MaxIn} \cup {Zero(1)}

\* the operands handed to the operations of the chain
ArgVals == {Val(j) : j \in (0 - MaxArg)..MaxArg} \cup {Zero(1)}
ArgIntervals ==
  {min_max(a, b).val : <<a, b>> \in {p \in ArgVals \X ArgVals : min_max(p[1], p[2]).tag = "Some"}}

Profiles == {"dev", "release"}

\* what the three constructors return for those arguments
ByMinMax ==
  {min_max(a, b).val : <<a, b>> \in {p \in InputVals \X InputVals : min_max(p[1], p[2]).tag = "Some"}}
ByPoint == {point(v) : v \in InputVals}
ByPointExtents ==
  {point_extents(c, h).val :
     <<c, h>> \in {p \in InputVals \X InputVals : point_extents(p[1], p[2]).tag = "Some"}}
Constructed == ByMinMax \cup ByPoint \cup ByPointExtents

\* RealInterval::default(), the value of an operand not in use
Idle == RealInterval(Zero(0), Zero(0))

(***************************************************************************)
(* Spec: one live interval, built by a constructor, to which the           *)
(* operations are applied one after another.  self is the live interval,   *)
(* op the last operation, out what it returned.  An operation that returns *)
(* no value leaves the interval; a panic ends the program.                 *)
(***************************************************************************)
\* the values the chain follows
Tracked(x) ==
  \/ ~IsFinite(x) /\ Followed(x)
  \/ IsZero(x)
  \/ x.man = 0 /\ x.exp <= MaxShift
  \/ /\ IsFinite(x)
     /\ Exact(x)
     /\ Dy(x).m <= MaxSig
     /\ Magnitude(Dy(x).e) <= ExpSpan

TrackedResult(res) ==
  res.tag = "Some" => Tracked(res.val.min) /\ Tracked(res.val.max)

Init ==
  /\ self \in {c \in Constructed : Tracked(c.min) /\ Tracked(c.max)}
  /\ rhs = Idle
  /\ exponent = 0
  /\ op = "chain"
  /\ out = Some(self)
  /\ profile \in Profiles

Step(res) ==
  /\ out.tag # "Panic"
  /\ TrackedResult(res)
  /\ out' = res
  /\ self' = IF res.tag = "Some" THEN res.val ELSE self
  /\ UNCHANGED <<exponent, op, profile>>

Abs == Step(Some(abs(self))) /\ UNCHANGED rhs
Min == \E r \in ArgIntervals : Step(Some(min(self, r))) /\ UNCHANGED rhs
Max == \E r \in ArgIntervals : Step(Some(max(self, r))) /\ UNCHANGED rhs
Minf == \E v \in ArgVals : Step(Some(minf(self, v))) /\ UNCHANGED rhs
Maxf == \E v \in ArgVals : Step(Some(maxf(self, v))) /\ UNCHANGED rhs
Round == Step(Some(round(self))) /\ UNCHANGED rhs
Powf == \E v \in ArgVals : Step(powf(self, v)) /\ UNCHANGED rhs
Powi == \E n \in (0 - MaxPow)..MaxPow : Step(Some(powi(self, n))) /\ UNCHANGED rhs
MulPow2 ==
  \E n \in (0 - MaxShift)..MaxShift : Step(mul_pow2(self, n, profile)) /\ UNCHANGED rhs
Add == \E r \in ArgIntervals : Step(Some(add(self, r))) /\ UNCHANGED rhs
Sub == \E r \in ArgIntervals : Step(Some(sub(self, r))) /\ UNCHANGED rhs
Mul == \E r \in ArgIntervals : Step(Some(mul(self, r))) /\ UNCHANGED rhs
AddF32 == \E v \in ArgVals : Step(Some(add_f32(self, v))) /\ UNCHANGED rhs
SubF32 == \E v \in ArgVals : Step(Some(sub_f32(self, v))) /\ UNCHANGED rhs
MulF32 == \E v \in ArgVals : Step(Some(mul_f32(self, v))) /\ UNCHANGED rhs
F32Mul == \E v \in ArgVals : Step(Some(f32_mul_interval(v, self))) /\ UNCHANGED rhs
Neg == Step(Some(neg(self))) /\ UNCHANGED rhs
BitAnd == \E r \in ArgIntervals : Step(bitand(self, r)) /\ UNCHANGED rhs
BitOr == \E r \in ArgIntervals : Step(Some(bitor(self, r))) /\ UNCHANGED rhs

Next ==
  \/ Abs \/ Min \/ Max \/ Minf \/ Maxf \/ Round \/ Powf \/ Powi \/ MulPow2
  \/ Add \/ Sub \/ Mul \/ AddF32 \/ SubF32 \/ MulF32 \/ F32Mul \/ Neg
  \/ BitAnd \/ BitOr

Spec == Init /\ [][Next]_vars

(***************************************************************************)
(* SpecOps: one operation applied to operands self and rhs, each built by  *)
(* min_max from the grid of arguments; out is what the operation returned. *)
(***************************************************************************)
FollowedResult(res) ==
  res.tag = "Some" => Followed(res.val.min) /\ Followed(res.val.max)

InitOps ==
  /\ self \in ByMinMax
  /\ rhs \in ByMinMax
  /\ exponent = 0
  /\ op = "new"
  /\ out = None
  /\ profile = "dev"

Apply(name, res) ==
  /\ op = "new"
  /\ FollowedResult(res)
  /\ op' = name
  /\ out' = res
  /\ UNCHANGED <<self, rhs, profile>>

OpsAdd == Apply("add", Some(add(self, rhs))) /\ UNCHANGED exponent
OpsSub == Apply("sub", Some(sub(self, rhs))) /\ UNCHANGED exponent
OpsMul == Apply("mul", Some(mul(self, rhs))) /\ UNCHANGED exponent
OpsAbs == Apply("abs", Some(abs(self))) /\ UNCHANGED exponent
OpsNeg == Apply("neg", Some(neg(self))) /\ UNCHANGED exponent
OpsBitAnd == Apply("bitand", bitand(self, rhs)) /\ UNCHANGED exponent
OpsBitOr == Apply("bitor", Some(bitor(self, rhs))) /\ UNCHANGED exponent
OpsPowi ==
  \E n \in (0 - MaxPow)..MaxPow :
    Apply("powi", Some(powi(self, n))) /\ exponent' = n

NextOps ==
  \/ OpsAdd \/ OpsSub \/ OpsMul \/ OpsAbs \/ OpsNeg \/ OpsBitAnd \/ OpsBitOr
  \/ OpsPowi

SpecOps == InitOps /\ [][NextOps]_vars

(***************************************************************************)
(* SpecBits: mul_pow2 and mul_pow2_unchecked on bounds that are arbitrary  *)
(* bit patterns, under both build profiles.                                *)
(***************************************************************************)
BitExps == {0, 1, Bias, ExpMask - 1, ExpMask}
BitMans == {0, 1, Two23 - 1}
BitPatterns == {F32(s, e, m) : s \in {0, 1}, e \in BitExps, m \in BitMans}
Shifts ==
  {0 - ExpMask - 1, 0 - ExpMask, 1 - ExpMask, 0 - Bias - 1, 0 - Bias, -2, -1, 0,
   1, 2, Bias, Bias + 1, ExpMask - 1, ExpMask, ExpMask + 1}

InitBits ==
  /\ self \in {RealInterval(a, b) : a \in BitPatterns, b \in BitPatterns}
  /\ rhs = Idle
  /\ exponent \in Shifts
  /\ op = "new"
  /\ out = None
  /\ profile \in Profiles

BitsMulPow2 ==
  /\ op = "new"
  /\ op' = "mul_pow2"
  /\ out' = mul_pow2(self, exponent, profile)
  /\ UNCHANGED <<self, rhs, exponent, profile>>

BitsMulPow2Unchecked ==
  /\ op = "new"
  /\ op' = "mul_pow2_unchecked"
  /\ out' = mul_pow2_unchecked(self, exponent, profile)
  /\ UNCHANGED <<self, rhs, exponent, profile>>

NextBits == BitsMulPow2 \/ BitsMulPow2Unchecked

SpecBits == InitBits /\ [][NextBits]_vars

(***************************************************************************)
(* Properties                                                              *)
(***************************************************************************)
Valid(iv) == f32_le(iv.min, iv.max)

\* the points of the argument grid that lie in an interval
Points(iv) == {v \in InputVals : contains(iv, v)}

\* a followed f32 that the interval contains
Encloses(iv, x) == Followed(x) /\ contains(iv, x)

\* C1: every interval produced by a chain of operations on a validly
\* constructed interval satisfies min <= max.
C1_InvariantPreserved == out.tag # "Panic" => Valid(self)

\* C2: the results of +, -, * and abs contain op(a, b) (resp. |a|) for all
\* points a of self and b of rhs.
C2_Enclosure ==
  /\ op = "add" =>
       \A a \in Points(self), b \in Points(rhs) : Encloses(out.val, f32_add(a, b))
  /\ op = "sub" =>
       \A a \in Points(self), b \in Points(rhs) : Encloses(out.val, f32_sub(a, b))
  /\ op = "mul" =>
       \A a \in Points(self), b \in Points(rhs) : Encloses(out.val, f32_mul(a, b))
  /\ op = "abs" => \A a \in Points(self) : Encloses(out.val, f32_abs(a))

\* both operands straddle zero and have been multiplied
C2_Witness ==
  /\ op = "mul"
  /\ out.tag = "Some"
  /\ f32_lt(self.min, Zero(0)) /\ f32_lt(Zero(0), self.max)
  /\ f32_lt(rhs.min, Zero(0)) /\ f32_lt(Zero(0), rhs.max)

\* a^n is defined (and followed) for the point a
PowiDefined(a, n) == ~(IsZero(a) /\ n < 0) /\ Followed(f32_powi(a, n))

\* C3: self.powi(n) contains a^n for every point a of self where a^n is
\* defined, for every integer n.
C3_PowiEnclosure ==
  op = "powi" =>
    \A a \in Points(self) :
      PowiDefined(a, exponent) => contains(out.val, f32_powi(a, exponent))

\* the value encoded by r is the value encoded by a times 2^n
Scaled(a, r, n) ==
  IF IsNaN(a) \/ IsNaN(r) THEN IsNaN(a) /\ IsNaN(r)
  ELSE IF IsInf(a) \/ IsInf(r) THEN IsInf(a) /\ IsInf(r) /\ a.sign = r.sign
  ELSE IF IsZero(a) \/ IsZero(r) THEN IsZero(a) /\ IsZero(r)
  ELSE a.sign = r.sign /\ Dy(r).m = Dy(a).m /\ Dy(r).e = Dy(a).e + n

\* C4: whenever mul_pow2(n) returns a value, each bound of it encodes the
\* bound of self times 2^n.
C4_ScalingExact ==
  (op = "mul_pow2" /\ out.tag = "Some") =>
    /\ Scaled(self.min, out.val.min, exponent)
    /\ Scaled(self.max, out.val.max, exponent)

\* where the exponent fields of the bounds and of the result are those of
\* normal numbers (1..254), the scaling is exact
NormalField(x) == x.exp >= 1 /\ x.exp < ExpMask
ScalingExactOnNormals ==
  (/\ op = "mul_pow2"
   /\ out.tag = "Some"
   /\ NormalField(self.min) /\ NormalField(self.max)
   /\ NormalField(out.val.min) /\ NormalField(out.val.max)) =>
    /\ Scaled(self.min, out.val.min, exponent)
    /\ Scaled(self.max, out.val.max, exponent)

\* the exponent field of a plus n leaves 0..255
RangeFails(a, n) == a.exp + n > ExpMask \/ a.exp + n < 0

\* C5: mul_pow2(n) returns no value iff the exponent field of one of the
\* bounds plus n leaves 0..255, and returns a value when both stay inside.
C5_RangeCheck ==
  op = "mul_pow2" =>
    /\ out.tag = "None" <=> (RangeFails(self.min, exponent) \/ RangeFails(self.max, exponent))
    /\ ~(RangeFails(self.min, exponent) \/ RangeFails(self.max, exponent))
         => out.tag = "Some"

\* the range check alone: no value is returned exactly when a bound fails it
RangeCheckDecides ==
  op = "mul_pow2" =>
    (out.tag = "None" <=> (RangeFails(self.min, exponent) \/ RangeFails(self.max, exponent)))

\* C6: self * rhs is the hull of the four products of the bounds, and
\* [-2, 3] * [-1, 2] = [-4, 6].
Corners == {f32_mul(a, b) : a \in {self.min, self.max}, b \in {rhs.min, rhs.max}}
C6_MulIsCornerHull ==
  op = "mul" =>
    /\ \A c \in Corners : f32_le(out.val.min, c) /\ f32_le(c, out.val.max)
    /\ \E c \in Corners : f32_eq(c, out.val.min)
    /\ \E c \in Corners : f32_eq(c, out.val.max)
    /\ (eq(self, RealInterval(Num(-2), Num(3))) /\ eq(rhs, RealInterval(Num(-1), Num(2))))
         => eq(out.val, RealInterval(Num(-4), Num(6)))

\* [-2, 3] has been multiplied by [-1, 2]: the lower bound -4 = -2 * 2 and
\* the upper bound 6 = 3 * 2 come from different bounds of self
C6_Witness ==
  /\ op = "mul"
  /\ eq(self, RealInterval(Num(-2), Num(3)))
  /\ eq(rhs, RealInterval(Num(-1), Num(2)))
  /\ eq(out.val, RealInterval(Num(-4), Num(6)))

\* C7: self & rhs returns a value iff some point lies in both; the value is
\* [larger min, smaller max] and contains exactly the common points;
\* intervals touching in one point give that point.
Common == {v \in InputVals : contains(self, v) /\ contains(rhs, v)}
LargerMin == IF f32_le(self.min, rhs.min) THEN rhs.min ELSE self.min
SmallerMax == IF f32_le(self.max, rhs.max) THEN self.max ELSE rhs.max
C7_Intersection ==
  op = "bitand" =>
    /\ out.tag = "Some" <=> Common # {}
    /\ out.tag = "Some" <=> f32_le(LargerMin, SmallerMax)
    /\ out.tag = "Some" =>
         /\ f32_eq(out.val.min, LargerMin)
         /\ f32_eq(out.val.max, SmallerMax)
         /\ \A v \in InputVals : contains(out.val, v) <=> v \in Common
    /\ f32_eq(self.max, rhs.min) =>
         out.tag = "Some" /\ eq(out.val, point(self.max))

\* two proper intervals that touch in one point have been intersected
C7_Witness ==
  /\ op = "bitand"
  /\ f32_lt(self.min, self.max) /\ f32_lt(rhs.min, rhs.max)
  /\ f32_eq(self.max, rhs.min)
  /\ out.tag = "Some"
  /\ f32_eq(out.val.min, out.val.max)

\* two results are both absent or both the same interval
SameResult(r1, r2) ==
  /\ r1.tag = r2.tag
  /\ r1.tag = "Some" => eq(r1.val, r2.val)

\* C8: A & A = Some(A), A | A = A, & and | are commutative, and A | B is the
\* hull [smaller min, larger max].
C8_SetLaws ==
  /\ op = "bitand" =>
       /\ SameResult(out, bitand(rhs, self))
       /\ eq(self, rhs) => out.tag = "Some" /\ eq(out.val, self)
  /\ op = "bitor" =>
       /\ eq(out.val, bitor(rhs, self))
       /\ eq(self, rhs) => eq(out.val, self)
       /\ f32_eq(out.val.min, IF f32_le(self.min, rhs.min) THEN self.min ELSE rhs.min)
       /\ f32_eq(out.val.max, IF f32_le(self.max, rhs.max) THEN rhs.max ELSE self.max)

\* the union of two disjoint intervals has been taken
C8_Witness ==
  /\ op = "bitor"
  /\ f32_lt(self.max, rhs.min)
  /\ f32_eq(out.val.min, self.min)
  /\ f32_eq(out.val.max, rhs.max)

\* C9: self - rhs = [self.min - rhs.max, self.max - rhs.min] equals
\* self + (-rhs).
C9_SubIsAddNeg ==
  op = "sub" =>
    /\ eq(out.val, add(self, neg(rhs)))
    /\ f32_eq(out.val.min, f32_sub(self.min, rhs.max))
    /\ f32_eq(out.val.max, f32_sub(self.max, rhs.min))

\* a proper interval has been subtracted from a proper interval
C9_Witness ==
  /\ op = "sub"
  /\ f32_lt(self.min, self.max)
  /\ f32_lt(rhs.min, rhs.max)
  /\ ~f32_eq(f32_neg(rhs.min), rhs.max)

\* C10: for every bound and every n accepted by verify_ldexp, the u32
\* addition in ldexp does not overflow, the scaling completes with a value,
\* and the sign bit and mantissa of each bound are unchanged.
Accepted == verify_ldexp(self.min, exponent) /\ verify_ldexp(self.max, exponent)
SameSignMan(a, r) == a.sign = r.sign /\ a.man = r.man
C10_NoWrapAround ==
  (op \in {"mul_pow2", "mul_pow2_unchecked"} /\ Accepted) =>
    /\ ~ldexp_overflows(self.min, exponent)
    /\ ~ldexp_overflows(self.max, exponent)
    /\ out.tag = "Some"
    /\ SameSignMan(self.min, out.val.min)
    /\ SameSignMan(self.max, out.val.max)

====
